---- MODULE Spec2Model ----
(***************************************************************************)
(* Model of lib/forecast.py: Download and the three provider extraction     *)
(* routines ExtractMetOffice, ExtractDarkSky and ExtractOpenWeather.        *)
(*                                                                         *)
(* Python dictionaries are functions with a domain of strings, so that a   *)
(* missing key is a key outside DOMAIN.  Python lists are sequences        *)
(* (1-based here, 0-based in the source; PyIndex does the translation).    *)
(* The wall clock is the variable Now, counted in hours since the epoch;   *)
(* time.time() is Now * 3600 and the station time zone is UTC.             *)
(* Temp and WindSpd hold either the string '--' or a list [value, unit];   *)
(* both are sequences of strings here, the string '--' being <<"--">>.     *)
(* The host timer (kivy Clock) is the sequence scheduled of the timeouts   *)
(* of the Download callbacks that have been scheduled and have not fired.  *)
(***************************************************************************)
EXTENDS Integers, Sequences, FiniteSets, TLC

VARIABLES
    Config,     \* station configuration, fixed for a behaviour
    metData,    \* the forecast dictionary owned by the caller
    scheduled,  \* Clock: timeouts of the pending Download callbacks
    Now,        \* wall clock, hours since the epoch
    started,    \* whether the host has made its first Download call
    last        \* what the latest Download call did (history of the call)

vars == <<Config, metData, scheduled, Now, started, last>>

----------------------------------------------------------------------------
(* Bounds of the model *)

\* the clock runs from FirstNow to MaxNow (hours since the epoch)
FirstNow == 20
MaxNow == 25
\* the host timer holds at most MaxScheduled pending callbacks
MaxScheduled == 3

----------------------------------------------------------------------------
(* Python values *)

EmptyDict == [k \in {} |-> 0]

\* d with the items of upd assigned (d[k] = v for each item of upd)
Assign(d, upd) == upd @@ d

\* Python's a[i] on a list: 0-based, a negative index counts from the end,
\* anything outside -len..len-1 raises IndexError
InRange(a, i) == -Len(a) <= i /\ i < Len(a)
PyIndex(a, i) == IF i >= 0 THEN a[i + 1] ELSE a[Len(a) + i + 1]

\* list.index(x): position (0-based) of the first item equal to x; -1
\* stands for the ValueError raised when x is not in the list
RECURSIVE IndexFrom(_, _, _)
IndexFrom(a, x, i) ==
    IF i > Len(a) THEN -1
    ELSE IF a[i] = x THEN i - 1
    ELSE IndexFrom(a, x, i + 1)
ListIndex(a, x) == IndexFrom(a, x, 1)

\* bisect.bisect (bisect_right): binary search for the rightmost insertion
\* point of x in the ordered list a
RECURSIVE BisectLoop(_, _, _, _)
BisectLoop(a, x, lo, hi) ==
    IF lo < hi
    THEN LET mid == (lo + hi) \div 2
         IN  IF x < PyIndex(a, mid)
             THEN BisectLoop(a, x, lo, mid)
             ELSE BisectLoop(a, x, mid + 1, hi)
    ELSE lo
bisect(a, x) == BisectLoop(a, x, 0, Len(a))

\* '{:02.0f}'.format(n) and strftime's %H, %M, %d for n in 0..99
Format02(n) == IF n < 10 THEN "0" \o ToString(n) ELSE ToString(n)

\* ''.join(chars): the string made of a list of one-character strings
RECURSIVE Join(_)
Join(chars) == IF chars = <<>> THEN "" ELSE Head(chars) \o Join(Tail(chars))

\* s[11:-4] of a string held as its list of characters
Slice11to4(chars) == SubSeq(chars, 12, Len(chars) - 4)

\* '{:.1f}'.format(x) for x >= 0 held in tenths
Format1f(tenths) == ToString(tenths \div 10) \o "." \o ToString(tenths % 10)

\* round(num / den) for num >= 0, den > 0, as '{:.0f}'.format does when
\* no tie occurs
RoundDiv(num, den) == (2 * num + den) \div (2 * den)

\* strftime('%Y-%m-%dZ') of the day that hour t (since the epoch) falls
\* in, for the January of the epoch year
DateZ(t) == "1970-01-" \o Format02(t \div 24 + 1) \o "Z"

\* Now.hour
Hour(t) == t % 24

\* strftime('%H:%M') of a timestamp in seconds
HHMM(ts) == Format02((ts \div 3600) % 24) \o ":" \o Format02((ts \div 60) % 60)

----------------------------------------------------------------------------
(* Collaborators outside lib/forecast.py *)

\* requestAPI.forecast.verifyResponse(Data, Field): the response carries a
\* JSON object with the top-level key Field
verifyResponse(Data, Field) == Data.ok /\ Field \in DOMAIN Data.body

\* Data.json()
json(Data) == Data.body

\* observation.Units(value, unit): value is <<number, unit>>; the station
\* of the model displays the units the extraction routines produce
Units(value, unit) == IF value[2] = unit THEN value ELSE <<value[1], unit>>

\* derive.CardinalWindDirection(WindDir)[2]: the cardinal label of a
\* bearing in degrees (16-point compass)
Cardinals ==
    <<"N", "NNE", "NE", "ENE", "E", "ESE", "SE", "SSE",
      "S", "SSW", "SW", "WSW", "W", "WNW", "NW", "NNW">>
CardinalWindDirection(WindDir) ==
    Cardinals[(((((WindDir[1] % 360) * 4) + 45) \div 90) % 16) + 1]

\* Clock.schedule_once(callback, timeout): the timeout of the retry
RetryDelay == 600

----------------------------------------------------------------------------
(* What a routine hands back: the dictionary as it leaves it, the timeouts *)
(* it passed to Clock.schedule_once, the exception it raised ("none" when  *)
(* it returned), and <<index, start>> of the period it read (<<>> when it  *)
(* read none).                                                             *)

Outcome(md, sched, exc, sel) ==
    [metData |-> md, scheduled |-> sched, raised |-> exc, sel |-> sel]

\* Unavailable with the assignment of Valid left out
UnavailableKeepsValid(md, now) ==
    Assign(md, [Time    |-> now,
                Temp    |-> <<"--">>,
                WindDir |-> "--",
                WindSpd |-> <<"--">>,
                Weather |-> "ForecastUnavailable",
                Precip  |-> "--"])

\* the 'forecast unavailable' assignments of the three except branches
Unavailable(md, now) ==
    Assign(md, [Time    |-> now,
                Temp    |-> <<"--">>,
                WindDir |-> "--",
                WindSpd |-> <<"--">>,
                Weather |-> "ForecastUnavailable",
                Precip  |-> "--",
                Valid   |-> "--"])

\* whether the keys path[1], path[2], ... can be followed from d
RECURSIVE HasPath(_, _)
HasPath(d, path) ==
    \/ path = <<>>
    \/ /\ Head(path) \in DOMAIN d
       /\ HasPath(d[Head(path)], Tail(path))

----------------------------------------------------------------------------
(* ExtractMetOffice *)

MetVars == {"T", "S", "D", "Pp", "W"}

\* ValidUntil without the wrap at 24
ValidUntilNoWrap(start) == start + 3

\* Valid + 3, wrapped at 24
ValidUntil(start) == IF start + 3 = 24 THEN 0 ELSE start + 3

ExtractMetOffice(md, cfg, now) ==
    IF \/ ~HasPath(md.Dict, <<"SiteRep", "DV", "dataDate">>)
       \/ ~HasPath(md.Dict, <<"SiteRep", "DV", "Location", "Period">>)
    THEN Outcome(Unavailable(md, now), <<RetryDelay>>, "none", <<>>)
    ELSE
    LET Issued == Join(Slice11to4(md.Dict.SiteRep.DV.dataDate))
        Period == md.Dict.SiteRep.DV.Location.Period
        Dates  == [i \in 1..Len(Period) |-> Period[i].value]
        today  == ListIndex(Dates, DateZ(now))
    IN
    IF today < 0 THEN Outcome(md, <<>>, "ValueError", <<>>)
    ELSE
    LET metDict == PyIndex(Period, today).Rep IN
    IF \E i \in 1..Len(metDict) : "$" \notin DOMAIN metDict[i]
    THEN Outcome(md, <<>>, "KeyError", <<>>)
    ELSE
    LET Times == [i \in 1..Len(metDict) |-> metDict[i]["$"] \div 60]
        idx   == bisect(Times, Hour(now)) - 1
    IN
    IF ~InRange(metDict, idx) THEN Outcome(md, <<>>, "IndexError", <<>>)
    ELSE
    LET rep   == PyIndex(metDict, idx)
        Valid == ValidUntil(PyIndex(Times, idx))
    IN
    IF ~(MetVars \subseteq DOMAIN rep)
    THEN Outcome(md, <<>>, "KeyError", <<idx, PyIndex(Times, idx)>>)
    ELSE
    LET Temp    == Units(<<rep.T * 10, "c">>, cfg.Units.Temp)
        WindSpd == Units(<<RoundDiv(rep.S * 10000, 22369), "mps">>,
                         cfg.Units.Wind)
    IN
    Outcome(Assign(md, [Time    |-> now,
                        Issued  |-> Issued,
                        Valid   |-> Format02(Valid) \o ":00",
                        Temp    |-> <<Format1f(Temp[1]), Temp[2]>>,
                        WindDir |-> rep.D,
                        WindSpd |-> <<ToString(WindSpd[1]), WindSpd[2]>>,
                        Weather |-> rep.W,
                        Precip  |-> rep.Pp,
                        Source  |-> "MetOffice"]),
            <<>>, "none", <<idx, PyIndex(Times, idx)>>)

----------------------------------------------------------------------------
(* ExtractDarkSky *)

DarkSkyVars ==
    {"temperature", "windSpeed", "windBearing", "precipProbability", "icon"}

\* DarkSkyIcon with the day and night codes of the partly cloudy icons
\* exchanged
DarkSkyIconExchanged(Weather) ==
    IF Weather = "clear-day" THEN "1"
    ELSE IF Weather = "clear-night" THEN "0"
    ELSE IF Weather = "rain" THEN "12"
    ELSE IF Weather = "snow" THEN "27"
    ELSE IF Weather = "sleet" THEN "18"
    ELSE IF Weather = "wind" THEN "wind"
    ELSE IF Weather = "fog" THEN "6"
    ELSE IF Weather = "cloudy" THEN "7"
    ELSE IF Weather = "partly-cloudy-day" THEN "2"
    ELSE IF Weather = "partly-cloudy-night" THEN "3"
    ELSE "ForecastUnavailable"

\* the if/elif chain that defines the weather icon
DarkSkyIcon(Weather) ==
    IF Weather = "clear-day" THEN "1"
    ELSE IF Weather = "clear-night" THEN "0"
    ELSE IF Weather = "rain" THEN "12"
    ELSE IF Weather = "snow" THEN "27"
    ELSE IF Weather = "sleet" THEN "18"
    ELSE IF Weather = "wind" THEN "wind"
    ELSE IF Weather = "fog" THEN "6"
    ELSE IF Weather = "cloudy" THEN "7"
    ELSE IF Weather = "partly-cloudy-day" THEN "3"
    ELSE IF Weather = "partly-cloudy-night" THEN "2"
    ELSE "ForecastUnavailable"

\* temperature is held in tenths of a degree, precipProbability in
\* hundredths, windSpeed and windBearing as whole numbers
ExtractDarkSky(md, cfg, now) ==
    IF ~HasPath(md.Dict, <<"hourly", "data">>)
    THEN Outcome(Unavailable(md, now), <<RetryDelay>>, "none", <<>>)
    ELSE
    LET metDict == md.Dict.hourly.data IN
    IF \E i \in 1..Len(metDict) : "time" \notin DOMAIN metDict[i]
    THEN Outcome(md, <<>>, "KeyError", <<>>)
    ELSE
    LET Times == [i \in 1..Len(metDict) |-> metDict[i].time]
        next  == bisect(Times, now * 3600)
        idx   == next - 1
    IN
    IF ~InRange(metDict, idx) THEN Outcome(md, <<>>, "IndexError", <<>>)
    ELSE
    LET hour == PyIndex(metDict, idx)
        sel  == <<idx, PyIndex(Times, idx)>>
    IN
    IF ~InRange(Times, next) THEN Outcome(md, <<>>, "IndexError", sel)
    ELSE IF ~(DarkSkyVars \subseteq DOMAIN hour)
    THEN Outcome(md, <<>>, "KeyError", sel)
    ELSE
    LET Issued  == PyIndex(Times, 0)
        Valid   == PyIndex(Times, next)
        Temp    == Units(<<hour.temperature, "c">>, cfg.Units.Temp)
        WindSpd == Units(<<RoundDiv(hour.windSpeed * 10000, 22369), "mps">>,
                         cfg.Units.Wind)
        WindDir == <<hour.windBearing, "degrees">>
        Precip  == hour.precipProbability
    IN
    Outcome(Assign(md, [Time    |-> now,
                        Issued  |-> HHMM(Issued),
                        Valid   |-> HHMM(Valid),
                        Temp    |-> <<Format1f(Temp[1]), Temp[2]>>,
                        WindDir |-> CardinalWindDirection(WindDir),
                        WindSpd |-> <<ToString(WindSpd[1]), WindSpd[2]>>,
                        Precip  |-> ToString(Precip),
                        Source  |-> "DarkSky",
                        Weather |-> DarkSkyIcon(hour.icon)]),
            <<>>, "none", sel)

----------------------------------------------------------------------------
(* ExtractOpenWeather *)

OpenWeatherVars == {"temp", "wind_speed", "wind_deg", "weather"}

ICONMAP ==
    "01n" :> "0"  @@ "01d" :> "1"  @@ "02n" :> "2"  @@ "02d" :> "3"  @@
    "50d" :> "6"  @@ "50n" :> "6"  @@ "03d" :> "7"  @@ "03n" :> "7"  @@
    "04d" :> "8"  @@ "04n" :> "8"  @@ "09n" :> "9"  @@ "09d" :> "10" @@
    "10n" :> "13" @@ "10d" :> "14" @@ "13n" :> "22" @@ "13d" :> "23" @@
    "11n" :> "28" @@ "11d" :> "29"

\* ICONMAP.get(Weather, "ForecastUnavailable")
OpenWeatherIcon(Weather) ==
    IF Weather \in DOMAIN ICONMAP THEN ICONMAP[Weather]
    ELSE "ForecastUnavailable"

\* temp is held in tenths of a degree, wind_speed and wind_deg as whole
\* numbers
ExtractOpenWeather(md, cfg, now) ==
    IF ~HasPath(md.Dict, <<"hourly">>)
    THEN Outcome(Unavailable(md, now), <<RetryDelay>>, "none", <<>>)
    ELSE
    LET metDict == md.Dict.hourly IN
    IF \E i \in 1..Len(metDict) : "dt" \notin DOMAIN metDict[i]
    THEN Outcome(md, <<>>, "KeyError", <<>>)
    ELSE
    LET Times == [i \in 1..Len(metDict) |-> metDict[i].dt]
        next  == bisect(Times, now * 3600)
        idx   == next - 1
    IN
    IF ~InRange(metDict, idx) THEN Outcome(md, <<>>, "IndexError", <<>>)
    ELSE
    LET hour == PyIndex(metDict, idx)
        sel  == <<idx, PyIndex(Times, idx)>>
    IN
    IF ~InRange(Times, next) THEN Outcome(md, <<>>, "IndexError", sel)
    ELSE IF ~(OpenWeatherVars \subseteq DOMAIN hour)
    THEN Outcome(md, <<>>, "KeyError", sel)
    ELSE IF ~InRange(hour.weather, 0) THEN Outcome(md, <<>>, "IndexError", sel)
    ELSE IF "icon" \notin DOMAIN PyIndex(hour.weather, 0)
    THEN Outcome(md, <<>>, "KeyError", sel)
    ELSE
    LET Issued  == PyIndex(Times, 0)
        Valid   == PyIndex(Times, next)
        Temp    == Units(<<hour.temp, "c">>, cfg.Units.Temp)
        WindSpd == Units(<<RoundDiv(hour.wind_speed * 2778, 10000), "mps">>,
                         cfg.Units.Wind)
        WindDir == <<hour.wind_deg, "degrees">>
        Weather == PyIndex(hour.weather, 0).icon
    IN
    Outcome(Assign(md, [Time    |-> now,
                        Issued  |-> HHMM(Issued),
                        Valid   |-> HHMM(Valid),
                        Temp    |-> <<Format1f(Temp[1]), Temp[2]>>,
                        WindDir |-> CardinalWindDirection(WindDir),
                        WindSpd |-> <<ToString(WindSpd[1]), WindSpd[2]>>,
                        Precip  |-> "--",
                        Source  |-> "OpenWeather",
                        Weather |-> OpenWeatherIcon(Weather)]),
            <<>>, "none", sel)

----------------------------------------------------------------------------
(* Download *)

\* Provider with the DarkSky key tested before the country
ProviderKeyFirst(cfg) ==
    IF cfg.Keys.DarkSky # "" THEN "DarkSky"
    ELSE IF cfg.Station.Country = "GB" THEN "MetOffice"
    ELSE IF cfg.Keys.OpenWeather # "" THEN "OpenWeather"
    ELSE "none"

\* the branch Download takes: the if/elif chain on the station's country
\* and the configured keys (a key is a string, empty when not configured)
Provider(cfg) ==
    IF cfg.Station.Country = "GB" THEN "MetOffice"
    ELSE IF cfg.Keys.DarkSky # "" THEN "DarkSky"
    ELSE IF cfg.Keys.OpenWeather # "" THEN "OpenWeather"
    ELSE "none"

\* Verify storing the empty dictionary on every failed check
VerifyResets(md, Data, Field) ==
    IF verifyResponse(Data, Field)
    THEN [metData |-> Assign(md, [Dict |-> json(Data)]), scheduled |-> <<>>]
    ELSE [metData   |-> Assign(md, [Dict |-> EmptyDict]),
          scheduled |-> <<RetryDelay>>]

\* 'Verify API response': the raw response is stored when it has the
\* expected field; otherwise a retry is scheduled and the stored response
\* is kept, or the empty dictionary stored when there is none
Verify(md, Data, Field) ==
    IF verifyResponse(Data, Field)
    THEN [metData |-> Assign(md, [Dict |-> json(Data)]), scheduled |-> <<>>]
    ELSE [metData   |-> IF "Dict" \notin DOMAIN md
                        THEN Assign(md, [Dict |-> EmptyDict])
                        ELSE md,
          scheduled |-> <<RetryDelay>>]

\* what a branch of Download hands back: v is the outcome of the
\* verification of the response of the request named name, e the outcome
\* of the extraction routine of that name
Branch(v, e, verified, name) ==
    [metData   |-> e.metData,
     scheduled |-> v.scheduled \o e.scheduled,
     raised    |-> e.raised,
     sel       |-> e.sel,
     verified  |-> verified,
     requested |-> <<name>>,
     extracted |-> <<name>>]

\* Download(metData, Config) at time now, Data being what the request it
\* makes returns
Download(md, cfg, Data, now) ==
    IF Provider(cfg) = "MetOffice"
    THEN LET v == Verify(md, Data, "SiteRep")
         IN  Branch(v, ExtractMetOffice(v.metData, cfg, now),
                    verifyResponse(Data, "SiteRep"), "MetOffice")
    ELSE IF Provider(cfg) = "DarkSky"
    THEN LET v == Verify(md, Data, "hourly")
         IN  Branch(v, ExtractDarkSky(v.metData, cfg, now),
                    verifyResponse(Data, "hourly"), "DarkSky")
    ELSE IF Provider(cfg) = "OpenWeather"
    THEN LET v == Verify(md, Data, "hourly")
         IN  Branch(v, ExtractOpenWeather(v.metData, cfg, now),
                    verifyResponse(Data, "hourly"), "OpenWeather")
    ELSE [metData   |-> md,
          scheduled |-> <<>>,
          raised    |-> "none",
          sel       |-> <<>>,
          verified  |-> FALSE,
          requested |-> <<>>,
          extracted |-> <<>>]

----------------------------------------------------------------------------
(* Responses of the providers *)

Response(body) == [ok |-> TRUE, body |-> body]

\* no usable response: the request failed
NoResponse == [ok |-> FALSE, body |-> EmptyDict]

\* a JSON object without the expected top-level key
ErrorBody == [error |-> "unavailable"]

\* one three-hourly MetOffice forecast starting start minutes after
\* midnight (the numeric strings of the JSON are held as numbers)
MetRep(start) ==
    ("$" :> start) @@
    [T |-> 12, S |-> 9, D |-> "SW", Pp |-> "5", W |-> ToString(start \div 180)]

\* the forecasts of the day that hour t falls in
MetDay(t, starts, keys) ==
    [value |-> DateZ(t),
     Rep   |-> [i \in 1..Len(starts) |->
                   [k \in keys |-> MetRep(starts[i])[k]]]]

MetFull == MetVars \cup {"$"}

dataDate ==
    <<"1", "9", "7", "0", "-", "0", "1", "-", "0", "1", "T",
      "1", "8", ":", "0", "0", ":", "0", "0", "Z">>

MetBody(Period) ==
    [SiteRep |-> [DV |-> [dataDate |-> dataDate,
                          type     |-> "Forecast",
                          Location |-> [Period |-> Period]]]]

\* today from 18:00 and 21:00, tomorrow from 00:00 and 03:00
MetGood ==
    MetBody(<<MetDay(0, <<1080, 1260>>, MetFull),
              MetDay(24, <<0, 180>>, MetFull)>>)
\* today only, from 21:00
MetLate == MetBody(<<MetDay(0, <<1260>>, MetFull)>>)
\* forecasts without the temperature
MetNoT ==
    MetBody(<<MetDay(0, <<1080, 1260>>, MetFull \ {"T"}),
              MetDay(24, <<0, 180>>, MetFull \ {"T"})>>)
\* SiteRep without the DV object
MetNoDV == [SiteRep |-> [Wx |-> "none"]]

\* one hourly DarkSky forecast starting at hour h since the epoch
DarkSkyHour(h, icon) ==
    [time |-> h * 3600, temperature |-> 215, windSpeed |-> 10,
     windBearing |-> 200, precipProbability |-> 30, icon |-> icon]

DarkSkyBody(hours, icons, keys) ==
    [hourly |->
        [summary |-> "hourly",
         data    |-> [i \in 1..Len(hours) |->
                        [k \in keys |->
                            DarkSkyHour(hours[i],
                                        icons[((i - 1) % Len(icons)) + 1])[k]]]]]

DarkSkyFull == DarkSkyVars \cup {"time"}

\* h, h+1, ..., h+n-1
Hours(h, n) == [i \in 1..n |-> h + i - 1]

DarkSkyGood ==
    DarkSkyBody(Hours(19, 10), <<"rain", "cloudy", "hail">>, DarkSkyFull)
\* forecasts from 21:00 to 23:00 only
DarkSkyShort == DarkSkyBody(Hours(21, 3), <<"fog", "wind">>, DarkSkyFull)
DarkSkyNoIcon ==
    DarkSkyBody(Hours(19, 10), <<"rain">>, DarkSkyFull \ {"icon"})
\* hourly without the data list
DarkSkyNoData == [hourly |-> [summary |-> "hourly"]]

\* one hourly OpenWeather forecast starting at hour h since the epoch
OpenWeatherHour(h, icon) ==
    [dt |-> h * 3600, temp |-> 215, wind_speed |-> 16, wind_deg |-> 200,
     weather |-> <<[id |-> 500, icon |-> icon]>>]

OpenWeatherBody(hours, icons, keys) ==
    [hourly |-> [i \in 1..Len(hours) |->
                    [k \in keys |->
                        OpenWeatherHour(hours[i],
                                        icons[((i - 1) % Len(icons)) + 1])[k]]]]

OpenWeatherFull == OpenWeatherVars \cup {"dt"}

OpenWeatherGood ==
    OpenWeatherBody(Hours(19, 10), <<"10d", "04n", "99x">>, OpenWeatherFull)
OpenWeatherShort ==
    OpenWeatherBody(Hours(21, 3), <<"50d", "01n">>, OpenWeatherFull)
OpenWeatherNoTemp ==
    OpenWeatherBody(Hours(19, 10), <<"10d">>, OpenWeatherFull \ {"temp"})

\* what the request of each provider may return
Responses(provider) ==
    IF provider = "MetOffice"
    THEN {NoResponse, Response(ErrorBody), Response(MetNoDV),
          Response(MetGood), Response(MetLate), Response(MetNoT)}
    ELSE IF provider = "DarkSky"
    THEN {NoResponse, Response(ErrorBody), Response(DarkSkyNoData),
          Response(DarkSkyGood), Response(DarkSkyShort),
          Response(DarkSkyNoIcon)}
    ELSE IF provider = "OpenWeather"
    THEN {NoResponse, Response(ErrorBody), Response(OpenWeatherGood),
          Response(OpenWeatherShort), Response(OpenWeatherNoTemp)}
    ELSE {NoResponse}

----------------------------------------------------------------------------
(* The system: the host, its timer and the clock *)

Configs ==
    [Station : [Country : {"GB", "US"}, Timezone : {"UTC"}],
     Keys    : [DarkSky : {"", "dskey"}, OpenWeather : {"", "owkey"}],
     Units   : [Temp : {"c"}, Wind : {"mps"}]]

NoCall ==
    [called    |-> FALSE,
     Data      |-> NoResponse,
     now       |-> 0,
     hadDict   |-> FALSE,
     oldDict   |-> EmptyDict,
     verified  |-> FALSE,
     requested |-> <<>>,
     extracted |-> <<>>,
     scheduled |-> <<>>,
     raised    |-> "none",
     sel       |-> <<>>]

Init ==
    /\ Config \in Configs
    /\ metData = EmptyDict
    /\ scheduled = <<>>
    /\ Now \in FirstNow..MaxNow
    /\ started = FALSE
    /\ last = NoCall

\* one call of Download with the timer holding pending: the dictionary is
\* mutated in place, the retries are added to the timer, and the call is
\* recorded
Call(Data, pending) ==
    LET r == Download(metData, Config, Data, Now) IN
    /\ Len(pending) + Len(r.scheduled) <= MaxScheduled
    /\ metData' = r.metData
    /\ scheduled' = pending \o r.scheduled
    /\ last' = [called    |-> TRUE,
                Data      |-> Data,
                now       |-> Now,
                hadDict   |-> "Dict" \in DOMAIN metData,
                oldDict   |-> IF "Dict" \in DOMAIN metData
                              THEN metData.Dict ELSE EmptyDict,
                verified  |-> r.verified,
                requested |-> r.requested,
                extracted |-> r.extracted,
                scheduled |-> r.scheduled,
                raised    |-> r.raised,
                sel       |-> r.sel]

\* the host's first call of Download, the request returning one of the
\* responses of the set S
FirstCall(S) ==
    /\ ~started
    /\ started' = TRUE
    /\ \E Data \in S : Call(Data, scheduled)
    /\ UNCHANGED <<Config, Now>>

HostCall == FirstCall(Responses(Provider(Config)))

\* the timer fires the oldest pending callback, which calls Download
TimerFire ==
    /\ scheduled # <<>>
    /\ \E Data \in Responses(Provider(Config)) : Call(Data, Tail(scheduled))
    /\ UNCHANGED <<Config, Now, started>>

\* an hour passes
Tick ==
    /\ Now < MaxNow
    /\ Now' = Now + 1
    /\ UNCHANGED <<Config, metData, scheduled, started, last>>

Next == HostCall \/ TimerFire \/ Tick

Spec == Init /\ [][Next]_vars

----------------------------------------------------------------------------
(* The national path on every hour of a day and every list of periods *)

\* the ordered list of the members of a set of numbers
RECURSIVE Ordered(_)
Ordered(S) ==
    IF S = {} THEN <<>>
    ELSE LET m == CHOOSE x \in S : \A y \in S : x <= y
         IN  <<m>> \o Ordered(S \ {m})

ThreeHourly == {0, 180, 360, 540, 720, 900, 1080, 1260}

MetOfficeLists ==
    {Response(MetBody(<<MetDay(0, Ordered(S), MetFull)>>)) :
        S \in SUBSET ThreeHourly}

InitMetOffice ==
    /\ Config \in {c \in Configs : c.Station.Country = "GB"}
    /\ metData = EmptyDict
    /\ scheduled = <<>>
    /\ Now \in 0..23
    /\ started = FALSE
    /\ last = NoCall

HostCallLists == FirstCall(MetOfficeLists)

NextMetOffice == HostCallLists

SpecMetOffice == InitMetOffice /\ [][NextMetOffice]_vars

----------------------------------------------------------------------------
(* The commercial paths on every icon *)

DarkSkyIcons ==
    {"clear-day", "clear-night", "rain", "snow", "sleet", "wind", "fog",
     "cloudy", "partly-cloudy-day", "partly-cloudy-night"}

\* icons that are in neither table
OtherIcons == {"hail", "thunderstorm", "99x", ""}

IconResponses(provider) ==
    IF provider = "DarkSky"
    THEN {Response(DarkSkyBody(Hours(19, 10), <<i>>, DarkSkyFull)) :
            i \in DarkSkyIcons \cup OtherIcons}
    ELSE IF provider = "OpenWeather"
    THEN {Response(OpenWeatherBody(Hours(19, 10), <<i>>, OpenWeatherFull)) :
            i \in DOMAIN ICONMAP \cup OtherIcons}
    ELSE {NoResponse}

InitIcons ==
    /\ Config \in {c \in Configs : Provider(c) \in {"DarkSky", "OpenWeather"}}
    /\ metData = EmptyDict
    /\ scheduled = <<>>
    /\ Now \in FirstNow..MaxNow
    /\ started = FALSE
    /\ last = NoCall

HostCallIcons == FirstCall(IconResponses(Provider(Config)))

NextIcons == HostCallIcons \/ Tick

SpecIcons == InitIcons /\ [][NextIcons]_vars

----------------------------------------------------------------------------
(* Properties *)

\* the latest Download call made a request and verifyResponse rejected
\* its response
ShapeCheckFailed ==
    /\ last.called
    /\ last.requested # <<>>
    /\ ~last.verified

\* the display fields hold the 'forecast unavailable' values
DisplayBlank ==
    /\ {"Temp", "WindDir", "WindSpd", "Precip", "Valid", "Weather"}
           \subseteq DOMAIN metData
    /\ metData.Temp = <<"--">>
    /\ metData.WindDir = "--"
    /\ metData.WindSpd = <<"--">>
    /\ metData.Precip = "--"
    /\ metData.Valid = "--"
    /\ metData.Weather = "ForecastUnavailable"

C2_OneRetryPerFailedCheck == ShapeCheckFailed => last.scheduled = <<600>>

\* C3: no Download call ends in an exception; a call that finds no usable
\* forecast returns with the display fields blank and a retry scheduled.
C3_NoExceptionEscapes ==
    last.called =>
        /\ last.raised = "none"
        /\ (last.requested # <<>> /\ last.sel = <<>>)
               => (DisplayBlank /\ last.scheduled # <<>>)

\* a call that failed: the shape check failed, or the extraction found no
\* usable forecast (it raised, or it left the display blank)
CallFailed ==
    /\ last.called
    /\ last.requested # <<>>
    /\ (ShapeCheckFailed \/ last.raised # "none" \/ DisplayBlank)

\* C4: every failed Download call is followed by a later call.  Download
\* is called again only by the timer, and the timer fires every callback
\* it holds; so the claim is that whenever the latest call has failed a
\* retry is pending on the timer.
C4_FailedCallHasRetryPending == CallFailed => scheduled # <<>>

\* C5: Download takes exactly one provider path by fixed priority:
\* MetOffice whenever the country is GB, whatever the keys; otherwise
\* DarkSky if its key is configured; otherwise OpenWeather if its key is
\* configured.  Only that provider's request and extraction run.
C5_ProviderPriority ==
    last.called =>
        LET expected ==
                IF Config.Station.Country = "GB" THEN <<"MetOffice">>
                ELSE IF Config.Keys.DarkSky # "" THEN <<"DarkSky">>
                ELSE IF Config.Keys.OpenWeather # "" THEN <<"OpenWeather">>
                ELSE <<>>
        IN  last.requested = expected /\ last.extracted = expected

C5_Witness ==
    /\ last.called
    /\ Config.Station.Country = "GB"
    /\ Config.Keys.DarkSky # ""
    /\ Config.Keys.OpenWeather # ""
    /\ last.requested = <<"MetOffice">>
    /\ last.extracted = <<"MetOffice">>

\* the start times of the periods the latest call searched, and the time
\* it searched for, in the unit of the provider
SearchedStarts ==
    IF Config.Station.Country = "GB"
    THEN LET Period == metData.Dict.SiteRep.DV.Location.Period
             today  == CHOOSE i \in 1..Len(Period) :
                           /\ Period[i].value = DateZ(last.now)
                           /\ \A j \in 1..(i - 1) :
                                  Period[j].value # DateZ(last.now)
         IN  [i \in 1..Len(Period[today].Rep) |->
                 Period[today].Rep[i]["$"] \div 60]
    ELSE IF Config.Keys.DarkSky # ""
    THEN [i \in 1..Len(metData.Dict.hourly.data) |->
             metData.Dict.hourly.data[i].time]
    ELSE [i \in 1..Len(metData.Dict.hourly) |-> metData.Dict.hourly[i].dt]

SearchedTime ==
    IF Config.Station.Country = "GB" THEN last.now % 24
    ELSE last.now * 3600

\* C6: a successful extraction reads the latest period whose start time is
\* <= now, and never a period whose start time is later than now.
C6_LatestPeriodNotAfterNow ==
    (last.called /\ last.raised = "none" /\ last.sel # <<>>) =>
        /\ last.sel[2] <= SearchedTime
        /\ \A i \in 1..Len(SearchedStarts) :
               SearchedStarts[i] <= SearchedTime
                   => SearchedStarts[i] <= last.sel[2]

\* the label of the end of the three-hour period starting at 0, 3, ..., 21
ValidLabels ==
    <<"03:00", "06:00", "09:00", "12:00", "15:00", "18:00", "21:00", "00:00">>

\* C7: on the national path a successful extraction writes Valid as the
\* zero-padded hour (selected start + 3) mod 24 followed by ':00'; it is
\* never '24:00'.
C7_ValidWraps ==
    (last.called /\ last.raised = "none" /\ last.sel # <<>>) =>
        /\ metData.Valid = ValidLabels[(last.sel[2] \div 3) + 1]
        /\ metData.Valid # "24:00"

C7_Witness ==
    /\ last.called
    /\ last.raised = "none"
    /\ last.now = 23
    /\ last.sel = <<7, 21>>
    /\ metData.Valid = "00:00"

\* the documented icon tables
DocumentedDarkSky ==
    "clear-day" :> "1" @@ "clear-night" :> "0" @@ "rain" :> "12" @@
    "snow" :> "27" @@ "sleet" :> "18" @@ "wind" :> "wind" @@ "fog" :> "6" @@
    "cloudy" :> "7" @@ "partly-cloudy-day" :> "3" @@
    "partly-cloudy-night" :> "2"

DocumentedOpenWeather ==
    "01n" :> "0" @@ "01d" :> "1" @@ "02n" :> "2" @@ "02d" :> "3" @@
    "50d" :> "6" @@ "50n" :> "6" @@ "03d" :> "7" @@ "03n" :> "7" @@
    "04d" :> "8" @@ "04n" :> "8" @@ "09n" :> "9" @@ "09d" :> "10" @@
    "10n" :> "13" @@ "10d" :> "14" @@ "13n" :> "22" @@ "13d" :> "23" @@
    "11n" :> "28" @@ "11d" :> "29"

\* the icon of the period the latest call read
IconRead ==
    IF last.requested = <<"DarkSky">>
    THEN PyIndex(metData.Dict.hourly.data, last.sel[1]).icon
    ELSE PyIndex(metData.Dict.hourly, last.sel[1]).weather[1].icon

\* C8: for both commercial providers a successful extraction sets Weather
\* to the documented code of the icon it read, and to
\* 'ForecastUnavailable' when the icon is not in the provider's table.
C8_IconTables ==
    (last.called /\ last.raised = "none" /\ last.sel # <<>>) =>
        LET table == IF last.requested = <<"DarkSky">>
                     THEN DocumentedDarkSky ELSE DocumentedOpenWeather
        IN  metData.Weather =
                IF IconRead \in DOMAIN table THEN table[IconRead]
                ELSE "ForecastUnavailable"

C8_Witness ==
    /\ last.called
    /\ last.raised = "none"
    /\ last.requested = <<"DarkSky">>
    /\ last.sel # <<>>
    /\ IconRead = "partly-cloudy-night"
    /\ metData.Weather = "2"

\* C9: a Download call whose response fails the shape check leaves the
\* stored raw response as it was, or stores the empty one when there was
\* none, and the extraction does not change it; a call whose response
\* passes the check stores the new response.
C9_DictChangesOnlyOnSuccess ==
    (last.called /\ last.requested # <<>>) =>
        metData.Dict =
            IF ShapeCheckFailed
            THEN (IF last.hadDict THEN last.oldDict ELSE EmptyDict)
            ELSE last.Data.body

C9_Witness ==
    /\ ShapeCheckFailed
    /\ last.hadDict
    /\ last.oldDict # EmptyDict
    /\ last.raised = "none"
    /\ last.sel # <<>>
    /\ metData.Dict = last.oldDict

\* C10: the timer never holds more than one pending retry of Download.
C10_AtMostOnePendingRetry == Len(scheduled) <= 1

====
